---- MODULE Spec2Model ----
(***************************************************************************)
(* Asynchronous (event-driven) variant of the microservice system: the     *)
(* RabbitMQ client, the BaseConsumer framework and the choreographed       *)
(* order / inventory / payment saga, together with the analytics click     *)
(* consumer.                                                               *)
(***************************************************************************)
EXTENDS Integers, Sequences, FiniteSets, TLC

(* ------------------------------ bounds -------------------------------- *)
MaxOrders == 1
MaxExternal == 1
MaxDeliveries == 5
MaxFaults == 1
MaxHeader == 3
\* requests made to the producer endpoints other than create_order
MaxRequests == 2
\* messages of a burst waiting in one queue (more than prefetch_count)
MaxBurst == 11
\* iterations of a run loop counted while its connection is lost
MaxIterations == 1
\* calls of disconnect() on one client
MaxCalls == 4
\* largest integer id of an event instance given to the codec
MaxId == 2
MaxSync == 2

(* -------------------------- program constants ------------------------- *)
max_retries == 3
prefetch_count == 10

PAYMENT_FAILED_EXCHANGE == "payment_failed"
ORDER_PAYMENT_FAILED_QUEUE == "order_payment_failed_queue"
INVENTORY_PAYMENT_FAILED_QUEUE == "inventory_payment_failed_queue"
CLICK_QUEUE == "click_tracked_queue"
FANOUT_EXCHANGE == "product_updates"
PRODUCT_QUEUE == "analytics_product_updates_queue"

Services == {"orderservice", "inventoryservice", "paymentservice", "analyticsservice"}

\* services whose lifespan starts start_consumer() as a background task and
\* yields at once: connect() runs inside that task
WorkerServices == {"emailservice", "cacheservice", "searchservice"}

AllServices == Services \cup WorkerServices

\* variant: the cache and the search service name their queue alike
QUEUE_NAME_shared(s) == "product_updates_queue"

\* QUEUE_NAME of the cache service and of the search service
QUEUE_NAME(s) ==
    IF s = "cacheservice" THEN "cache_product_updates_queue"
    ELSE "search_product_updates_queue"

\* the queues of the FanoutConsumers of product_updates
FanoutQueues == {PRODUCT_QUEUE, QUEUE_NAME("cacheservice"), QUEUE_NAME("searchservice")}

ConsumerQueues ==
    {"order_created_queue", "stock_reserved_queue", ORDER_PAYMENT_FAILED_QUEUE,
     INVENTORY_PAYMENT_FAILED_QUEUE, CLICK_QUEUE}

AllQueues == ConsumerQueues \cup {"stock_released_queue"} \cup FanoutQueues

\* the service whose lifespan starts the BaseConsumer of a queue
ConsumerService(q) ==
    CASE q = "order_created_queue" -> "inventoryservice"
      [] q = INVENTORY_PAYMENT_FAILED_QUEUE -> "inventoryservice"
      [] q = "stock_reserved_queue" -> "paymentservice"
      [] q = ORDER_PAYMENT_FAILED_QUEUE -> "orderservice"
      [] q = CLICK_QUEUE -> "analyticsservice"

\* queues declared by a service's lifespan start-up
DeclaredBy(s) ==
    CASE s = "orderservice" -> {"order_created_queue", ORDER_PAYMENT_FAILED_QUEUE}
      [] s = "inventoryservice" ->
            {"order_created_queue", "stock_reserved_queue", "stock_released_queue",
             INVENTORY_PAYMENT_FAILED_QUEUE}
      [] s = "paymentservice" -> {"stock_reserved_queue"}
      [] s = "analyticsservice" -> {CLICK_QUEUE, PRODUCT_QUEUE}
      [] s \in {"cacheservice", "searchservice"} -> {QUEUE_NAME(s)}
      [] OTHER -> {}

\* variant: the inventory service does not bind its queue
BoundBy_order_only(s) ==
    IF s = "orderservice"
    THEN {<<PAYMENT_FAILED_EXCHANGE, ORDER_PAYMENT_FAILED_QUEUE>>}
    ELSE {}

\* variant: the order service does not bind its queue
BoundBy_inventory_only(s) ==
    IF s = "inventoryservice"
    THEN {<<PAYMENT_FAILED_EXCHANGE, INVENTORY_PAYMENT_FAILED_QUEUE>>}
    ELSE {}

\* bindings made by a service's lifespan start-up
BoundBy(s) ==
    CASE s = "orderservice" -> {<<PAYMENT_FAILED_EXCHANGE, ORDER_PAYMENT_FAILED_QUEUE>>}
      [] s = "inventoryservice" -> {<<PAYMENT_FAILED_EXCHANGE, INVENTORY_PAYMENT_FAILED_QUEUE>>}
      [] s = "analyticsservice" -> {<<FANOUT_EXCHANGE, PRODUCT_QUEUE>>}
      [] s \in {"cacheservice", "searchservice"} -> {<<FANOUT_EXCHANGE, QUEUE_NAME(s)>>}
      [] OTHER -> {}

\* request inputs: OrderRequest accepts any integers
Products == {1, 2}
Quantities == {-1, 1, 2}

(* ---------------------------- event catalog --------------------------- *)
OrderCreatedEvent(o, p, q) == [order_id |-> o, product_id |-> p, quantity |-> q]
\* variant: the event names the order after the one that was handled
StockReservedEvent_next_order(o, p, q) ==
    [order_id |-> o + 1, product_id |-> p, quantity |-> q]

StockReservedEvent(o, p, q) == [order_id |-> o, product_id |-> p, quantity |-> q]
\* variant: the event does not carry the order's id
PaymentFailedEvent_no_order(o, r) == [order_id |-> 0, reason |-> r]

PaymentFailedEvent(o, r) == [order_id |-> o, reason |-> r]
\* variant: the event names the order after the one that failed
StockReleasedEvent_next_order(o, p, q, r) ==
    [order_id |-> o + 1, product_id |-> p, quantity |-> q, reason |-> r]

StockReleasedEvent(o, p, q, r) ==
    [order_id |-> o, product_id |-> p, quantity |-> q, reason |-> r]
ClickTrackedEvent(u, pg) == [user_id |-> u, page |-> pg]
UserRegisteredEvent(u) == [user_id |-> u]
ProductUpdatedEvent(p) == [product_id |-> p]
PaymentInitiatedEvent(p) == [payment_id |-> p]
GenerateReportJobEvent(j) == [job_id |-> j]

\* the event classes (of those the model uses, the fields it uses)
EventClasses ==
    {"OrderCreatedEvent", "StockReservedEvent", "StockReleasedEvent",
     "PaymentFailedEvent", "ClickTrackedEvent", "UserRegisteredEvent",
     "ProductUpdatedEvent", "PaymentInitiatedEvent", "GenerateReportJobEvent"}

\* required (default-less) fields of each event class
RequiredFields(cls) ==
    CASE cls = "OrderCreatedEvent" -> {"order_id", "product_id", "quantity"}
      [] cls = "StockReservedEvent" -> {"order_id", "product_id", "quantity"}
      [] cls = "StockReleasedEvent" -> {"order_id", "product_id", "quantity", "reason"}
      [] cls = "PaymentFailedEvent" -> {"order_id", "reason"}
      [] cls = "ClickTrackedEvent" -> {"user_id", "page"}
      [] cls = "UserRegisteredEvent" -> {"user_id"}
      [] cls = "ProductUpdatedEvent" -> {"product_id"}
      [] cls = "PaymentInitiatedEvent" -> {"payment_id"}
      [] cls = "GenerateReportJobEvent" -> {"job_id"}

\* the datetime field of each event class (it has a default)
TimestampField(cls) ==
    CASE cls = "StockReservedEvent" -> "reserved_at"
      [] cls = "StockReleasedEvent" -> "released_at"
      [] OTHER -> "timestamp"

\* the annotated type of a field
FieldType(f) ==
    CASE f \in {"order_id", "product_id", "quantity", "user_id"} -> "int"
      [] f \in {"reason", "page", "payment_id", "job_id"} -> "str"
      [] f \in {"timestamp", "reserved_at", "released_at"} -> "datetime"

\* datetime values: with and without a microsecond part
T0 == [second |-> 0, microsecond |-> 0]
T1 == [second |-> 0, microsecond |-> 123456]
Timestamps == {T0, T1}

\* variant: the timestamp is written with a resolution of seconds
isoformat_seconds(d) == "2025-01-01T12:00:00"

\* the ISO-8601 text model_dump_json writes for a datetime
isoformat(d) ==
    IF d.microsecond = 0 THEN "2025-01-01T12:00:00" ELSE "2025-01-01T12:00:00.123456"

\* the datetime an ISO-8601 text is parsed to
fromisoformat(text) ==
    IF text = "2025-01-01T12:00:00" THEN T0 ELSE T1

IsoTexts == {"2025-01-01T12:00:00", "2025-01-01T12:00:00.123456"}

\* the decimal texts of the integers 1..4, and int(text)
IntTexts == <<"1", "2", "3", "4">>
int(text) == CHOOSE n \in DOMAIN IntTexts : IntTexts[n] = text

\* JSON values: <<"number", n>> and <<"string", text>>
\* model_dump_json of one field: an int is written as a JSON number, a str
\* as a JSON string, a datetime as the JSON string of its ISO-8601 text
dump(type, value) ==
    CASE type = "int" -> <<"number", value>>
      [] type = "str" -> <<"string", value>>
      [] type = "datetime" -> <<"string", isoformat(value)>>

\* whether pydantic's (lax, the default) validation accepts a JSON value
\* for a field: an int field takes a number and also a string of digits
valid(type, json) ==
    CASE type = "int" ->
            \/ json[1] = "number"
            \/ json[1] = "string" /\ \E n \in DOMAIN IntTexts : IntTexts[n] = json[2]
      [] type = "str" -> json[1] = "string"
      [] type = "datetime" -> json[1] = "string" /\ json[2] \in IsoTexts

\* the Python value validation produces
validate(type, json) ==
    CASE type = "int" -> IF json[1] = "number" THEN json[2] ELSE int(json[2])
      [] type = "str" -> json[2]
      [] type = "datetime" -> fromisoformat(json[2])

\* a message body: UTF-8 JSON object, UTF-8 text that is not JSON, or bytes
\* that are not UTF-8
event_to_json(event) ==
    [enc |-> "json", obj |-> [f \in DOMAIN event |-> dump(FieldType(f), event[f])]]
TextBody == [enc |-> "text", obj |-> <<>>]
BytesBody == [enc |-> "bytes", obj |-> <<>>]

\* the fields of the class present in a JSON object (other keys are ignored)
ModelFields(body, cls) ==
    DOMAIN body.obj \cap (RequiredFields(cls) \cup {TimestampField(cls)})

\* json_to_event (model_validate_json) raises a validation error unless the
\* body is a JSON object holding every required field of the class, each
\* field with a value its type accepts
json_to_event_ok(body, cls) ==
    /\ body.enc = "json"
    /\ RequiredFields(cls) \subseteq DOMAIN body.obj
    /\ \A f \in ModelFields(body, cls) : valid(FieldType(f), body.obj[f])

json_to_event(body, cls) ==
    [f \in ModelFields(body, cls) |-> validate(FieldType(f), body.obj[f])]

\* the fields of a JSON body as they were written (json.loads)
Payload(body) == [f \in DOMAIN body.obj |-> body.obj[f][2]]

\* message.body.decode()
body_decodes(body) == body.enc # "bytes"

(* ------------------------------- state -------------------------------- *)
VARIABLES
    svc,        \* service -> "init" | "up" | "failed" | "stopping" | "down"  (lifespan position)
    running,    \* queue -> BaseConsumer._running of its consumer
    declared,   \* queues declared at the broker
    bindings,   \* set of <<exchange, queue>>
    queues,     \* queue -> sequence of ready messages
    inflight,   \* deliveries handed to _handle_message and not yet settled
    log,        \* settlements: one record per ack / reject sent to the broker
    published,  \* the publish_message calls that reached the broker
    orders,     \* Order rows, indexed by id
    reserved,   \* InventoryItem rows: product_id -> reserved
    faults,     \* number of database / broker faults injected so far
    externals,  \* number of messages published by foreign producers
    conn,       \* service -> "none" | "open" | "failed" | "lost" | "closed"  (RabbitMQClient.connection)
    iterations, \* queue -> iterations of the run loop made while the connection was lost
    http,       \* the responses the producer endpoints have returned
    client,     \* a RabbitMQClient under disconnect(): channel, connection, calls made
    codec,      \* one use of event_to_json / json_to_event: input, body, result
    fanout,     \* worker service -> position of its FanoutConsumer.start
    sync        \* the requests the synchronous create_order has served, in order

\* the variables of the specifications of single components
aux == <<client, codec, fanout, sync>>

vars == <<svc, running, declared, bindings, queues, inflight, log, published,
          orders, reserved, faults, externals, conn, iterations, http, aux>>

NoHeaders == <<>>
RetryHeader(k) == [h \in {"x-retry-count"} |-> k]

\* aio_pika.Message(body=...): no headers are attached by publish_message.
\* id and n are bookkeeping: id names the copy (a path of naturals: the
\* request that caused it followed by the delivery numbers of the messages
\* it descends from), n counts the deliveries of the copy so far.
Message(id, body, headers) ==
    [id |-> id, body |-> body, headers |-> headers, n |-> 0]

ReservedOf(p) == IF p \in DOMAIN reserved THEN reserved[p] ELSE 0

\* RabbitMQClient.__init__: self.connection = None, self.channel = None
NewClient == [channel |-> "none", connection |-> "none", calls |-> <<>>]

\* no event has been encoded or decoded yet
NoCodec == [op |-> "idle", origin |-> "none", cls |-> "none", event |-> <<>>,
            body |-> TextBody, ok |-> FALSE, result |-> <<>>]

\* the services that subscribe with a FanoutConsumer
FanoutWorkers == {"cacheservice", "searchservice"}

\* no FanoutConsumer.start has been called
NotStarted == [s \in FanoutWorkers |-> "idle"]

AuxInit == client = NewClient /\ codec = NoCodec /\ fanout = NotStarted /\ sync = <<>>

\* valid instances of an event class: integer ids, texts (also a text of
\* digits), timestamps with and without microseconds
Ids == 1..MaxId
Texts == {"abc", "1"}
Instances(cls) ==
    CASE cls = "OrderCreatedEvent" ->
            {OrderCreatedEvent(o, p, q) @@ [timestamp |-> t] :
                o \in Ids, p \in Ids, q \in Ids, t \in Timestamps}
      [] cls = "StockReservedEvent" ->
            {StockReservedEvent(o, p, q) @@ [reserved_at |-> t] :
                o \in Ids, p \in Ids, q \in Ids, t \in Timestamps}
      [] cls = "StockReleasedEvent" ->
            {StockReleasedEvent(o, p, 1, r) @@ [released_at |-> t] :
                o \in Ids, p \in Ids, r \in Texts, t \in Timestamps}
      [] cls = "PaymentFailedEvent" ->
            {PaymentFailedEvent(o, r) @@ [timestamp |-> t] :
                o \in Ids, r \in Texts, t \in Timestamps}
      [] cls = "ClickTrackedEvent" ->
            {ClickTrackedEvent(u, pg) @@ [timestamp |-> t] :
                u \in Ids, pg \in Texts, t \in Timestamps}
      [] cls = "UserRegisteredEvent" ->
            {UserRegisteredEvent(u) @@ [timestamp |-> t] : u \in Ids, t \in Timestamps}
      [] cls = "ProductUpdatedEvent" ->
            {ProductUpdatedEvent(pr) @@ [timestamp |-> t] : pr \in Ids, t \in Timestamps}
      [] cls = "PaymentInitiatedEvent" ->
            {PaymentInitiatedEvent(pay) @@ [timestamp |-> t] :
                pay \in Texts, t \in Timestamps}
      [] cls = "GenerateReportJobEvent" ->
            {GenerateReportJobEvent(j) @@ [timestamp |-> t] : j \in Texts, t \in Timestamps}

\* JSON values of another type than the field's
WrongValues(type) ==
    CASE type = "int" -> {<<"string", "1">>, <<"string", "abc">>}
      [] type = "str" -> {<<"number", 1>>}
      [] type = "datetime" -> {<<"string", "abc">>}

Init ==
    /\ svc = [s \in AllServices |-> "init"]
    /\ running = [q \in ConsumerQueues |-> FALSE]
    /\ declared = {}
    /\ bindings = {}
    /\ queues = [q \in AllQueues |-> <<>>]
    /\ inflight = {}
    /\ log = {}
    /\ published = {}
    /\ orders = <<>>
    /\ reserved = <<>>
    /\ faults = 0
    /\ externals = 0
    /\ conn = [s \in AllServices |-> "none"]
    /\ iterations = [q \in ConsumerQueues |-> 0]
    /\ http = {}
    /\ AuxInit


(* --------------------------- broker client ---------------------------- *)
\* variant: the bound queues share the message (competing consumers)
Routes_competing(exchange_name, routing_key, bnd, decl) ==
    IF exchange_name = ""
    THEN {q \in decl : q = routing_key}
    ELSE LET bound == {q \in AllQueues : <<exchange_name, q>> \in bnd}
         IN IF bound = {} THEN {} ELSE {CHOOSE q \in bound : TRUE}

\* the queues an exchange routes a message to: the default exchange ("")
\* routes to the declared queue named by the routing key, a fanout exchange
\* to every queue bound to it
Routes(exchange_name, routing_key, bnd, decl) ==
    IF exchange_name = ""
    THEN {q \in decl : q = routing_key}
    ELSE {q \in AllQueues : <<exchange_name, q>> \in bnd}

\* RabbitMQClient.publish_message: one copy appended to every routed queue
publish_message(qs, id, exchange_name, routing_key, message_body) ==
    [q \in AllQueues |->
        IF q \in Routes(exchange_name, routing_key, bindings, declared)
        THEN Append(qs[q], Message(id, message_body, NoHeaders))
        ELSE qs[q]]

\* record of one publish_message call; bound: the queues bound to the
\* exchange when the call was made
Published(id, exchange_name, routing_key, message_body) ==
    [id |-> id, exchange |-> exchange_name, routing_key |-> routing_key,
     body |-> message_body,
     bound |-> {q \in AllQueues : <<exchange_name, q>> \in bindings}]

(* ------------------------- consumer framework ------------------------- *)
_get_retry_count(message) ==
    IF "x-retry-count" \in DOMAIN message.headers
    THEN message.headers["x-retry-count"]
    ELSE 0

\* variant: the comparison admits one retry too many
RetryDecision_inclusive(retry_count) ==
    IF retry_count <= max_retries THEN "requeue" ELSE "discard"

\* except Exception: requeue below max_retries, otherwise reject for good
RetryDecision(retry_count) ==
    IF retry_count < max_retries THEN "requeue" ELSE "discard"

\* variant: the ack is followed by the reject of the error path
OnSuccess_then_reject(retry_count) == <<"ack", RetryDecision(retry_count)>>

\* variant: an exhausted message is acknowledged to get rid of it
OnException_ack_exhausted(retry_count) ==
    IF retry_count < max_retries THEN <<"requeue">> ELSE <<"ack">>

\* variant: cancellation is treated like any other failure
OnCancelled_as_failure(retry_count) == <<RetryDecision(retry_count)>>

\* the settlements _handle_message sends for one delivery, in order
OnSuccess(retry_count) == <<"ack">>
OnException(retry_count) == <<RetryDecision(retry_count)>>
OnCancelled(retry_count) == <<"requeue">>

Dispositions(message, cause) ==
    CASE cause = "success" -> OnSuccess(_get_retry_count(message))
      [] cause = "failure" -> OnException(_get_retry_count(message))
      [] cause = "shutdown" -> OnCancelled(_get_retry_count(message))

\* message.reject(requeue=True): the broker puts the message back at the
\* head of its queue as it was published (body and headers unchanged);
\* ack and reject(requeue=False) remove it (no dead-letter exchange is
\* configured by declare_queue).  Only the first settlement of a delivery
\* takes effect at the broker.
reject_requeue(qs, d) == [qs EXCEPT ![d.queue] = <<d.msg>> \o @]

Settled(qs, d, cause) ==
    IF Dispositions(d.msg, cause)[1] = "requeue" THEN reject_requeue(qs, d) ELSE qs

\* how _handle_message ends after the settlement: the CancelledError branch
\* re-raises; the discard branch logs body[:100], and body is unbound when
\* message.body.decode() was what raised, so the log call raises
\* UnboundLocalError out of the except block
Returns(message, cause) ==
    CASE cause = "success" -> "normal"
      [] cause = "shutdown" -> "cancelled"
      [] cause = "failure" ->
            IF RetryDecision(_get_retry_count(message)) = "discard"
               /\ ~body_decodes(message.body)
            THEN "error"
            ELSE "normal"

SettlementLog(d, cause) ==
    {[id |-> d.msg.id, queue |-> d.queue, n |-> d.msg.n, k |-> k,
      disp |-> Dispositions(d.msg, cause)[k], cause |-> cause,
      body |-> d.msg.body, headers |-> d.msg.headers,
      returns |-> Returns(d.msg, cause)]
        : k \in DOMAIN Dispositions(d.msg, cause)}

Delivery(q, m, pc) == [queue |-> q, msg |-> m, pc |-> pc, snap |-> 0, fresh |-> FALSE]

\* the consumer callback of a queue is registered and the channel is open:
\* consume_messages is never undone before disconnect(), so deliveries and
\* handlers go on while the lifespan is shutting down
Consuming(q) == svc[ConsumerService(q)] \in {"up", "stopping"}

(* ------------------------------ lifespan ------------------------------ *)
StartService(s) ==
    /\ svc[s] = "init"
    /\ svc' = [svc EXCEPT ![s] = "up"]
    /\ declared' = declared \cup DeclaredBy(s)
    /\ bindings' = bindings \cup BoundBy(s)
    /\ running' = [q \in ConsumerQueues |-> running[q] \/ ConsumerService(q) = s]
    /\ conn' = [conn EXCEPT ![s] = "open"]
    /\ UNCHANGED <<queues, inflight, log, published, orders, reserved, faults, externals>>
    /\ UNCHANGED <<iterations, http>>
    /\ UNCHANGED aux

\* lifespan start-up when the broker is unreachable: connect() logs and
\* re-raises, the awaiting lifespan raises and the application does not start
StartFails(s) ==
    /\ svc[s] = "init"
    /\ svc' = [svc EXCEPT ![s] = "failed"]
    /\ conn' = [conn EXCEPT ![s] = "failed"]
    /\ UNCHANGED <<running, declared, bindings, queues, inflight, log, published,
                   orders, reserved, faults, externals>>
    /\ UNCHANGED <<iterations, http>>
    /\ UNCHANGED aux

\* lifespan start-up of a worker service: create_task(start_consumer()) and
\* yield at once; the application serves (and /health answers "healthy")
StartWorker(s) ==
    /\ svc[s] = "init"
    /\ svc' = [svc EXCEPT ![s] = "up"]
    /\ UNCHANGED <<running, declared, bindings, queues, inflight, log, published,
                   orders, reserved, faults, externals>>
    /\ UNCHANGED <<conn, iterations, http>>
    /\ UNCHANGED aux

\* start_consumer() of a worker service, running as a background task:
\* connect() succeeds and the consumer declares and binds its queue, or
\* connect() raises and the exception ends the task only
start_consumer(s, reachable) ==
    /\ svc[s] = "up"
    /\ conn[s] = "none"
    /\ conn' = [conn EXCEPT ![s] = IF reachable THEN "open" ELSE "failed"]
    /\ declared' = IF reachable THEN declared \cup DeclaredBy(s) ELSE declared
    /\ bindings' = IF reachable THEN bindings \cup BoundBy(s) ELSE bindings
    /\ UNCHANGED <<svc, running, queues, inflight, log, published,
                   orders, reserved, faults, externals>>
    /\ UNCHANGED <<iterations, http>>
    /\ fanout' = IF reachable /\ s \in FanoutWorkers
                 THEN [fanout EXCEPT ![s] = "consuming"]
                 ELSE fanout
    /\ UNCHANGED <<client, codec, sync>>

\* the broker connection drops; the connection made by connect_robust stays
\* in place and retries every reconnect_interval
ConnectionLost(s) ==
    /\ conn[s] = "open"
    /\ svc[s] = "up"
    /\ conn' = [conn EXCEPT ![s] = "lost"]
    /\ UNCHANGED <<svc, running, declared, bindings, queues, inflight, log, published,
                   orders, reserved, faults, externals>>
    /\ UNCHANGED <<iterations, http>>
    /\ UNCHANGED aux

\* the robust connection has reconnected
Reconnected(s) ==
    /\ conn[s] = "lost"
    /\ conn' = [conn EXCEPT ![s] = "open"]
    /\ UNCHANGED <<svc, running, declared, bindings, queues, inflight, log, published,
                   orders, reserved, faults, externals>>
    /\ UNCHANGED <<iterations, http>>
    /\ UNCHANGED aux

\* variant: the loop also tests the connection and ends when it is lost
KeepsRunning_connected(_running, connection) == _running /\ connection = "open"

\* while self._running: the loop condition reads the flag only
KeepsRunning(_running, connection) == _running

\* one iteration of the run loop (await asyncio.sleep(1), then the loop
\* condition) made while the connection is lost
RunLoopIteration(q) ==
    /\ svc[ConsumerService(q)] = "up"
    /\ running[q]
    /\ conn[ConsumerService(q)] = "lost"
    /\ iterations[q] < MaxIterations
    /\ iterations' = [iterations EXCEPT ![q] = @ + 1]
    /\ running' = [running EXCEPT ![q] = KeepsRunning(running[q], conn[ConsumerService(q)])]
    /\ UNCHANGED <<svc, declared, bindings, queues, inflight, log, published, orders,
                   reserved, faults, externals>>
    /\ UNCHANGED <<conn, http>>
    /\ UNCHANGED aux

\* lifespan after yield: task.cancel() for every consumer task; start()
\* catches CancelledError and clears _running.  From here on a handler in
\* flight may be cancelled at any of its awaits (HandlerCancelled).
CancelTasks(s) ==
    /\ svc[s] = "up"
    /\ svc' = [svc EXCEPT ![s] = "stopping"]
    /\ running' = [q \in ConsumerQueues |-> running[q] /\ ConsumerService(q) # s]
    /\ UNCHANGED <<declared, bindings, queues, inflight, log, published, orders,
                   reserved, faults, externals>>
    /\ UNCHANGED <<conn, iterations, http>>
    /\ UNCHANGED aux

\* BaseConsumer.stop(): clears _running, so the run loop leaves its while at
\* the next iteration; the broker-side consumer is not cancelled
stop(q) ==
    /\ svc[ConsumerService(q)] = "up"
    /\ running[q]
    /\ running' = [running EXCEPT ![q] = FALSE]
    /\ UNCHANGED <<svc, declared, bindings, queues, inflight, log, published, orders,
                   reserved, faults, externals>>
    /\ UNCHANGED <<conn, iterations, http>>
    /\ UNCHANGED aux

\* rabbitmq_client.disconnect(): the channel closes once the handlers in
\* flight have been cancelled
Disconnect(s) ==
    /\ svc[s] = "stopping"
    /\ \A d \in inflight : ConsumerService(d.queue) # s
    /\ svc' = [svc EXCEPT ![s] = "down"]
    /\ conn' = [conn EXCEPT ![s] = "closed"]
    /\ UNCHANGED <<running, declared, bindings, queues, inflight, log, published,
                   orders, reserved, faults, externals>>
    /\ UNCHANGED <<iterations, http>>
    /\ UNCHANGED aux

\* GET /health: "rabbitmq_connected": rabbitmq_client is not None and
\* rabbitmq_client.connection is not None.  The attribute is assigned by a
\* successful connect_robust and never reset, neither by a loss of the
\* connection nor by disconnect()
rabbitmq_connected(s) == conn[s] \notin {"none", "failed"}

\* the other variables of the model, which the client's own methods leave alone
system == <<svc, running, declared, bindings, queues, inflight, log, published,
            orders, reserved, faults, externals, conn, iterations, http>>

\* RabbitMQClient.connect on a new client: both set on success; nothing set
\* when connect_robust raises; the connection only when channel() raises
connect(outcome) ==
    /\ client = NewClient
    /\ client' = [client EXCEPT
                    !.connection = IF outcome = "unreachable" THEN "none" ELSE "open",
                    !.channel = IF outcome = "ok" THEN "open" ELSE "none"]
    /\ UNCHANGED <<system, codec, fanout, sync>>

\* RabbitMQClient.disconnect: one try block around both closes.
\* channel_close and connection_close say what each close() does if it is
\* called: return ("ok") or raise ("raises").  An exception of
\* channel.close() leaves the try block before connection.close() is
\* reached; the except branch logs and returns.
disconnect(channel_close, connection_close) ==
    /\ Len(client.calls) < MaxCalls
    /\ LET channel_called == client.channel # "none"
           channel_raised == channel_called /\ channel_close = "raises"
           connection_called == ~channel_raised /\ client.connection # "none"
           connection_raised == connection_called /\ connection_close = "raises"
           call == [channel_close |-> IF channel_called THEN channel_close ELSE "skipped",
                    connection_close |->
                        IF connection_called THEN connection_close ELSE "skipped",
                    raised |-> FALSE]
       IN client' =
            [channel |-> IF channel_called /\ ~channel_raised
                         THEN "closed" ELSE client.channel,
             connection |-> IF connection_called /\ ~connection_raised
                            THEN "closed" ELSE client.connection,
             calls |-> Append(client.calls, call)]
    /\ UNCHANGED <<system, codec, fanout, sync>>

\* a producer encodes an event: event_to_json(event)
encode(cls, event) ==
    /\ codec.op = "idle"
    /\ codec' = [codec EXCEPT !.op = "encoded", !.origin = "encode", !.cls = cls,
                               !.event = event, !.body = event_to_json(event)]
    /\ UNCHANGED <<system, client, fanout, sync>>

\* a body arrives that is the JSON of an event except for one field, which
\* is missing or holds a value of another type
receive(cls, event, f, defect) ==
    /\ codec.op = "idle"
    /\ f \in RequiredFields(cls)
    /\ LET good == event_to_json(event).obj
       IN \/ /\ defect = "missing"
             /\ codec' = [codec EXCEPT
                    !.op = "received", !.origin = "receive", !.cls = cls,
                    !.body = [enc |-> "json",
                              obj |-> [g \in DOMAIN good \ {f} |-> good[g]]]]
          \/ /\ defect = "wrong_type"
             /\ \E json \in WrongValues(FieldType(f)) :
                    codec' = [codec EXCEPT
                        !.op = "received", !.origin = "receive", !.cls = cls,
                        !.body = [enc |-> "json", obj |-> [good EXCEPT ![f] = json]]]
    /\ UNCHANGED <<system, client, fanout, sync>>

\* a consumer decodes the body: json_to_event(body, cls) returns the event
\* or raises
decode ==
    /\ codec.op \in {"encoded", "received"}
    /\ LET ok == json_to_event_ok(codec.body, codec.cls)
       IN codec' = [codec EXCEPT
                      !.op = "decoded", !.ok = ok,
                      !.result = IF ok THEN json_to_event(codec.body, codec.cls)
                                 ELSE <<>>]
    /\ UNCHANGED <<system, client, fanout, sync>>

(* ------------------------------ producers ----------------------------- *)
\* a database or broker fault injected into a step
Fault(outcome) ==
    IF outcome = "ok" THEN faults' = faults
    ELSE faults < MaxFaults /\ faults' = faults + 1

\* the response an endpoint returns: its HTTP status, whether its publish
\* raised, and the id of the event it published (<<>> when none)
Response(endpoint, status, publish_failed, event) ==
    [req |-> Cardinality(http) + 1, endpoint |-> endpoint, status |-> status,
     publish_failed |-> publish_failed, event |-> event]

\* variant: the row is inserted without the pending status
Order_no_status(product_id, quantity) ==
    [product_id |-> product_id, quantity |-> quantity, status |-> "new"]

\* Order(product_id=..., quantity=..., status="pending")
Order(product_id, quantity) ==
    [product_id |-> product_id, quantity |-> quantity, status |-> "pending"]

\* POST /create_order: insert the row (status pending) and commit, publish
\* OrderCreated, answer 202; an exception is re-raised (500)
create_order(product_id, quantity, outcome) ==
    /\ svc["orderservice"] = "up"
    /\ Len(orders) < MaxOrders
    /\ Fault(outcome)
    /\ LET new_id == Len(orders) + 1
           body == event_to_json(OrderCreatedEvent(new_id, product_id, quantity))
           row == Order(product_id, quantity)
       IN CASE outcome = "ok" ->
                 /\ orders' = Append(orders, row)
                 /\ queues' = publish_message(queues, <<new_id>>, "", "order_created_queue", body)
                 /\ published' = published \cup
                       {Published(<<new_id>>, "", "order_created_queue", body)}
                 /\ http' = http \cup {Response("create_order", 202, FALSE, <<new_id>>)}
            [] outcome = "db_error" ->
                 /\ UNCHANGED <<orders, queues, published>>
                 /\ http' = http \cup {Response("create_order", 500, FALSE, <<>>)}
            [] outcome = "publish_error" ->
                 /\ orders' = Append(orders, row)
                 /\ UNCHANGED <<queues, published>>
                 /\ http' = http \cup {Response("create_order", 500, TRUE, <<>>)}
    /\ UNCHANGED <<svc, running, declared, bindings, inflight, log, reserved, externals>>
    /\ UNCHANGED <<conn, iterations>>
    /\ UNCHANGED aux

\* the common shape of the other producer endpoints: build the event and
\* publish it; answer ok_status, or error_status when the publish raised
Endpoint(endpoint, exchange_name, routing_key, body, ok_status, error_status, outcome) ==
    /\ Cardinality(http) < MaxRequests
    /\ Fault(outcome)
    /\ LET id == <<0, 0, Cardinality(http) + 1>>
       IN IF outcome = "ok"
          THEN /\ queues' = publish_message(queues, id, exchange_name, routing_key, body)
               /\ published' = published \cup
                     {Published(id, exchange_name, routing_key, body)}
               /\ http' = http \cup {Response(endpoint, ok_status, FALSE, id)}
          ELSE /\ UNCHANGED <<queues, published>>
               /\ http' = http \cup {Response(endpoint, error_status, TRUE, <<>>)}
    /\ UNCHANGED <<svc, running, declared, bindings, inflight, log, orders, reserved,
                   externals>>
    /\ UNCHANGED <<conn, iterations>>
    /\ UNCHANGED aux

\* POST /register (202): except Exception -> HTTPException(500)
register_user(outcome) ==
    Endpoint("register", "", "user_registered_queue",
             event_to_json(UserRegisteredEvent(1)), 202, 500, outcome)

\* POST /process_payment (202): except Exception -> HTTPException(500)
process_payment(outcome) ==
    Endpoint("process_payment", "", "payment_initiated_queue",
             event_to_json(PaymentInitiatedEvent("pay_1")), 202, 500, outcome)

\* PUT /products/{product_id} (200): except Exception -> HTTPException(500)
update_product(outcome) ==
    Endpoint("update_product", FANOUT_EXCHANGE, "",
             event_to_json(ProductUpdatedEvent(1)), 200, 500, outcome)

\* POST /generate_report (202): except Exception -> return
\* ReportJobResponse(status="error"), sent with the route's status 202
generate_report(outcome) ==
    Endpoint("generate_report", "", "report_job_queue",
             event_to_json(GenerateReportJobEvent("job_1")), 202, 202, outcome)

\* POST /track_click (200): except Exception -> return {"status": "error"},
\* sent with the route's status 200
track_click(outcome) ==
    Endpoint("track_click", "", CLICK_QUEUE,
             event_to_json(ClickTrackedEvent(1, "home")), 200, 200, outcome)

\* bodies and headers a producer outside this repository may send
ExternalBodies ==
    {TextBody, BytesBody,
     event_to_json(OrderCreatedEvent(1, 1, 1)),
     event_to_json(PaymentFailedEvent(1, "external"))}

ExternalHeaders == {NoHeaders} \cup {RetryHeader(k) : k \in (max_retries - 1)..MaxHeader}

ExternalPublish(q, body, headers) ==
    /\ q \in declared
    /\ externals < MaxExternal
    /\ externals' = externals + 1
    /\ queues' = [queues EXCEPT ![q] = Append(@, Message(<<0, externals + 1>>, body, headers))]
    /\ UNCHANGED <<svc, running, declared, bindings, inflight, log, published,
                   orders, reserved, faults>>
    /\ UNCHANGED <<conn, iterations, http>>
    /\ UNCHANGED aux

(* ------------------------ FanoutConsumer.start ------------------------ *)
\* variant: consumption starts whatever has been declared and bound
MayConsume_unbound(position) == position \in {"idle", "declared", "bound"}

\* super().start(message_handler) is reached only after the awaits of
\* declare_exchange and bind_queue_to_exchange have returned
MayConsume(position) == position = "bound"

\* await self.rabbitmq_client.declare_exchange(exchange_name, FANOUT); an
\* exception leaves start()
fanout_declare_exchange(s, ok) ==
    /\ svc[s] = "up"
    /\ conn[s] = "open"
    /\ fanout[s] = "idle"
    /\ fanout' = [fanout EXCEPT ![s] = IF ok THEN "declared" ELSE "failed"]
    /\ UNCHANGED <<system, client, codec, sync>>

\* await self.rabbitmq_client.bind_queue_to_exchange(...): declare_queue,
\* get_exchange, queue.bind; an exception of any of the three leaves start()
fanout_bind_queue(s, outcome) ==
    /\ fanout[s] = "declared"
    /\ fanout' = [fanout EXCEPT ![s] = IF outcome = "ok" THEN "bound" ELSE "failed"]
    /\ declared' = IF outcome = "declare_error" THEN declared
                   ELSE declared \cup DeclaredBy(s)
    /\ bindings' = IF outcome = "ok" THEN bindings \cup BoundBy(s) ELSE bindings
    /\ UNCHANGED <<svc, running, queues, inflight, log, published, orders, reserved,
                   faults, externals>>
    /\ UNCHANGED <<conn, iterations, http>>
    /\ UNCHANGED <<client, codec, sync>>

\* await super().start(message_handler): consume_messages registers the
\* callback; an exception is logged and re-raised
fanout_consume(s, ok) ==
    /\ MayConsume(fanout[s])
    /\ conn[s] = "open"
    /\ fanout' = [fanout EXCEPT ![s] = IF ok THEN "consuming" ELSE "failed"]
    /\ declared' = IF ok THEN declared \cup DeclaredBy(s) ELSE declared
    /\ UNCHANGED <<svc, running, bindings, queues, inflight, log, published, orders,
                   reserved, faults, externals>>
    /\ UNCHANGED <<conn, iterations, http>>
    /\ UNCHANGED <<client, codec, sync>>

\* one delivery to the subscriber's callback: process_product_updated
\* validates the event and the framework settles the message
process_product_updated(s) ==
    /\ fanout[s] = "consuming"
    /\ conn[s] = "open"
    /\ queues[QUEUE_NAME(s)] # <<>>
    /\ Head(queues[QUEUE_NAME(s)]).n < MaxDeliveries
    /\ LET q == QUEUE_NAME(s)
           d == Delivery(q, [Head(queues[q]) EXCEPT !.n = @ + 1], "Handling")
           cause == IF json_to_event_ok(d.msg.body, "ProductUpdatedEvent")
                    THEN "success" ELSE "failure"
       IN /\ queues' = Settled([queues EXCEPT ![q] = Tail(@)], d, cause)
          /\ log' = log \cup SettlementLog(d, cause)
    /\ UNCHANGED <<svc, running, declared, bindings, inflight, published, orders,
                   reserved, faults, externals>>
    /\ UNCHANGED <<conn, iterations, http>>
    /\ UNCHANGED aux

(* -------------------- BaseConsumer._handle_message -------------------- *)
\* the settlement that ends a delivery, applied to the queues qs
Finish(d, cause, qs) ==
    /\ inflight' = inflight \ {d}
    /\ queues' = Settled(qs, d, cause)
    /\ log' = log \cup SettlementLog(d, cause)

\* variant: no quality-of-service limit is set on the channel
WithinPrefetch_unlimited(unsettled) == TRUE

\* channel.set_qos(prefetch_count=10): the broker delivers to a consumer only
\* while fewer than prefetch_count of its deliveries are unsettled
WithinPrefetch(unsettled) == unsettled < prefetch_count

\* the broker hands the head of a queue to the consumer callback; the
\* callback decodes the body and calls the handler.  A body that is not
\* UTF-8 raises before the handler is called.
Deliver(q) ==
    /\ Consuming(q)
    /\ queues[q] # <<>>
    /\ Head(queues[q]).n < MaxDeliveries
    /\ conn[ConsumerService(q)] = "open"
    /\ WithinPrefetch(Cardinality({d \in inflight : d.queue = q}))
    /\ LET m == [Head(queues[q]) EXCEPT !.n = @ + 1]
           d == Delivery(q, m, "Handling")
           rest == [queues EXCEPT ![q] = Tail(@)]
       IN IF body_decodes(m.body)
          THEN /\ inflight' = inflight \cup {d}
               /\ queues' = rest
               /\ log' = log
          ELSE /\ inflight' = inflight
               /\ queues' = Settled(rest, d, "failure")
               /\ log' = log \cup SettlementLog(d, "failure")
    /\ UNCHANGED <<svc, running, declared, bindings, published, orders, reserved,
                   faults, externals>>
    /\ UNCHANGED <<conn, iterations, http>>
    /\ UNCHANGED aux

\* asyncio.CancelledError reaches a handler in flight during shutdown
HandlerCancelled(d) ==
    /\ d \in inflight
    /\ svc[ConsumerService(d.queue)] = "stopping"
    /\ Finish(d, "shutdown", queues)
    /\ UNCHANGED <<svc, running, declared, bindings, published, orders, reserved,
                   faults, externals>>
    /\ UNCHANGED <<conn, iterations, http>>
    /\ UNCHANGED aux

ChildId(d) == d.msg.id \o <<d.msg.n>>

(* ------------------------------ handlers ------------------------------ *)
\* variant: the quantity is stored instead of added
Reserve_overwrite(current, quantity) == quantity

\* inventory.reserved += event.quantity, on the row as it was read (0 for a
\* row created by this handler)
Reserve(current, quantity) == current + quantity

\* InventoryService.process_order_created, up to the SELECT of the row
process_order_created_select(d) ==
    /\ d \in inflight
    /\ d.queue = "order_created_queue"
    /\ d.pc = "Handling"
    /\ Consuming(d.queue)
    /\ IF json_to_event_ok(d.msg.body, "OrderCreatedEvent")
       THEN LET event == json_to_event(d.msg.body, "OrderCreatedEvent")
            IN /\ inflight' = (inflight \ {d}) \cup
                     {[d EXCEPT !.pc = "Selected",
                                !.snap = ReservedOf(event.product_id),
                                !.fresh = event.product_id \notin DOMAIN reserved]}
               /\ UNCHANGED <<queues, log>>
       ELSE Finish(d, "failure", queues)
    /\ UNCHANGED <<svc, running, declared, bindings, published, orders, reserved,
                   faults, externals>>
    /\ UNCHANGED <<conn, iterations, http>>
    /\ UNCHANGED aux

\* ... inventory.reserved += quantity, commit, publish StockReserved
process_order_created_commit(d, outcome) ==
    /\ d \in inflight
    /\ d.queue = "order_created_queue"
    /\ d.pc = "Selected"
    /\ Consuming(d.queue)
    /\ Fault(outcome)
    /\ LET event == json_to_event(d.msg.body, "OrderCreatedEvent")
           body == event_to_json(StockReservedEvent(event.order_id, event.product_id,
                                                    event.quantity))
           written == (event.product_id :> Reserve(d.snap, event.quantity)) @@ reserved
           \* the row this handler adds was inserted by another handler since
           \* the SELECT: the INSERT violates the primary key and commit raises
           conflict == d.fresh /\ event.product_id \in DOMAIN reserved
       IN CASE outcome = "ok" /\ ~conflict ->
                 /\ reserved' = written
                 /\ published' = published \cup
                       {Published(ChildId(d), "", "stock_reserved_queue", body)}
                 /\ Finish(d, "success",
                       publish_message(queues, ChildId(d), "", "stock_reserved_queue", body))
            [] outcome = "db_error" \/ conflict ->
                 /\ UNCHANGED <<reserved, published>>
                 /\ Finish(d, "failure", queues)
            [] outcome = "publish_error" /\ ~conflict ->
                 /\ reserved' = written
                 /\ UNCHANGED published
                 /\ Finish(d, "failure", queues)
    /\ UNCHANGED <<svc, running, declared, bindings, orders, externals>>
    /\ UNCHANGED <<conn, iterations, http>>
    /\ UNCHANGED aux

\* PaymentService.process_stock_reserved: the payment always fails
process_stock_reserved(d, outcome) ==
    /\ d \in inflight
    /\ d.queue = "stock_reserved_queue"
    /\ d.pc = "Handling"
    /\ Consuming(d.queue)
    /\ IF json_to_event_ok(d.msg.body, "StockReservedEvent")
       THEN LET event == json_to_event(d.msg.body, "StockReservedEvent")
                body == event_to_json(PaymentFailedEvent(event.order_id,
                                                         "Insufficient funds"))
            IN /\ Fault(outcome)
               /\ IF outcome = "ok"
                  THEN /\ published' = published \cup
                             {Published(ChildId(d), PAYMENT_FAILED_EXCHANGE, "", body)}
                       /\ Finish(d, "success",
                             publish_message(queues, ChildId(d), PAYMENT_FAILED_EXCHANGE,
                                             "", body))
                  ELSE /\ UNCHANGED published
                       /\ Finish(d, "failure", queues)
       ELSE /\ outcome = "ok"
            /\ UNCHANGED <<published, faults>>
            /\ Finish(d, "failure", queues)
    /\ UNCHANGED <<svc, running, declared, bindings, orders, reserved, externals>>
    /\ UNCHANGED <<conn, iterations, http>>
    /\ UNCHANGED aux

\* variant: the handler of the failure event completes the order
MarkFailed_completed(order) == [order EXCEPT !.status = "completed"]

\* order.status = "failed"
MarkFailed(order) == [order EXCEPT !.status = "failed"]

\* variant: an order row is created for an id that matches none
update_order_status_upsert(db, order_id) ==
    IF order_id \in DOMAIN db.orders
    THEN [db EXCEPT !.orders = [db.orders EXCEPT ![order_id] = MarkFailed(@)]]
    ELSE IF order_id = Len(db.orders) + 1
         THEN [db EXCEPT !.orders = Append(db.orders, MarkFailed(Order(1, 1)))]
         ELSE db

\* variant: the order service also releases the order's stock itself, in
\* the inventory table of the shared database
update_order_status_and_release(db, order_id) ==
    IF order_id \in DOMAIN db.orders
    THEN [orders |-> [db.orders EXCEPT ![order_id] = MarkFailed(@)],
          reserved |-> [p \in DOMAIN db.reserved |->
                          IF p = db.orders[order_id].product_id
                          THEN 0 ELSE db.reserved[p]]]
    ELSE db

\* the transaction of OrderService.process_payment_failed on the database
\* (one PostgreSQL database holds the tables of every service): select the
\* Order by id and, if found, set its status; no other table is touched
update_order_status(db, order_id) ==
    IF order_id \in DOMAIN db.orders
    THEN [db EXCEPT !.orders = [db.orders EXCEPT ![order_id] = MarkFailed(@)]]
    ELSE db

\* OrderService.process_payment_failed: mark the order failed
order_process_payment_failed(d, outcome) ==
    /\ d \in inflight
    /\ d.queue = ORDER_PAYMENT_FAILED_QUEUE
    /\ d.pc = "Handling"
    /\ Consuming(d.queue)
    /\ IF json_to_event_ok(d.msg.body, "PaymentFailedEvent")
       THEN LET event == json_to_event(d.msg.body, "PaymentFailedEvent")
            IN /\ Fault(outcome)
               /\ IF outcome = "ok"
                  THEN /\ LET db == update_order_status(
                                         [orders |-> orders, reserved |-> reserved],
                                         event.order_id)
                          IN orders' = db.orders /\ reserved' = db.reserved
                       /\ Finish(d, "success", queues)
                  ELSE /\ UNCHANGED <<orders, reserved>>
                       /\ Finish(d, "failure", queues)
       ELSE /\ outcome = "ok"
            /\ UNCHANGED <<orders, reserved, faults>>
            /\ Finish(d, "failure", queues)
    /\ UNCHANGED <<svc, running, declared, bindings, published, externals>>
    /\ UNCHANGED <<conn, iterations, http>>
    /\ UNCHANGED aux

\* InventoryService.process_payment_failed: no change of the reserved count;
\* StockReleased is published with the placeholder product 1, quantity 1
inventory_process_payment_failed(d, outcome) ==
    /\ d \in inflight
    /\ d.queue = INVENTORY_PAYMENT_FAILED_QUEUE
    /\ d.pc = "Handling"
    /\ Consuming(d.queue)
    /\ IF json_to_event_ok(d.msg.body, "PaymentFailedEvent")
       THEN LET event == json_to_event(d.msg.body, "PaymentFailedEvent")
                body == event_to_json(StockReleasedEvent(event.order_id, 1, 1,
                                                         "payment_failed"))
            IN /\ Fault(outcome)
               /\ IF outcome = "ok"
                  THEN /\ published' = published \cup
                             {Published(ChildId(d), "", "stock_released_queue", body)}
                       /\ Finish(d, "success",
                             publish_message(queues, ChildId(d), "",
                                             "stock_released_queue", body))
                  ELSE /\ UNCHANGED published
                       /\ Finish(d, "failure", queues)
       ELSE /\ outcome = "ok"
            /\ UNCHANGED <<published, faults>>
            /\ Finish(d, "failure", queues)
    /\ UNCHANGED <<svc, running, declared, bindings, orders, reserved, externals>>
    /\ UNCHANGED <<conn, iterations, http>>
    /\ UNCHANGED aux

\* AnalyticsService.process_click_tracked: a validation error is logged and
\* swallowed, the handler returns normally
process_click_tracked(d) ==
    /\ d \in inflight
    /\ d.queue = CLICK_QUEUE
    /\ d.pc = "Handling"
    /\ Consuming(d.queue)
    /\ Finish(d, "success", queues)
    /\ UNCHANGED <<svc, running, declared, bindings, published, orders, reserved,
                   faults, externals>>
    /\ UNCHANGED <<conn, iterations, http>>
    /\ UNCHANGED aux

(* ----------------------- synchronous saga (HTTP) ---------------------- *)
\* the outcomes of one requests.post call as create_order tells them apart:
\* a 2xx answer, a requests.exceptions.RequestException (connection error,
\* timeout, or the HTTPError of raise_for_status), any other exception
CallOutcomes == {"ok", "request_error", "unexpected"}

\* POST /reserve_stock: the row is created at 0 if missing, then
\* inventory.reserved += request.quantity
reserve_stock(rows, product_id, quantity) ==
    (product_id :> Reserve(IF product_id \in DOMAIN rows THEN rows[product_id] ELSE 0,
                           quantity)) @@ rows

\* POST /compensate_stock on an existing row: inventory.reserved -=
\* request.quantity; if inventory.reserved < 0: inventory.reserved = 0
compensate_stock(rows, product_id, quantity) ==
    LET left == rows[product_id] - quantity
    IN (product_id :> (IF left < 0 THEN 0 ELSE left)) @@ rows

\* variant: an unexpected error leaves the status as it was
FinalStatus_unhandled(reserve, payment, compensation) ==
    IF "unexpected" \in {reserve, payment, compensation} THEN "pending"
    ELSE IF reserve = "ok" /\ payment = "ok" THEN "completed" ELSE "failed"

\* the status committed last by create_order: completed after
\* payment_response.raise_for_status() passed, failed in the except branch of
\* the reservation, in the except branch of the payment and in the outer
\* except Exception
FinalStatus(reserve, payment, compensation) ==
    IF reserve = "ok" /\ payment = "ok" THEN "completed" ELSE "failed"

\* the HTTP calls create_order makes, in order
Calls(product_id, quantity, reserve, payment, compensation) ==
    LET call(endpoint) ==
            [endpoint |-> endpoint, product_id |-> product_id, quantity |-> quantity]
    IN <<call("reserve_stock")>>
       \o (IF reserve = "ok" THEN <<call("process_payment_fail")>> ELSE <<>>)
       \o (IF compensation # "none" THEN <<call("compensate_stock")>> ELSE <<>>)

\* POST /create_order of the synchronous OrderService, the whole request: the
\* row is inserted as pending, stock is reserved, the payment is requested,
\* a failed payment is compensated, and the final status is committed.  A
\* call is made only if the earlier ones let the code reach it ("none"
\* otherwise); the inventory changes only through calls that answered 2xx.
sync_create_order(product_id, quantity, reserve, payment, compensation) ==
    /\ Len(sync) < MaxSync
    /\ reserve \in CallOutcomes
    /\ payment \in (IF reserve = "ok" THEN CallOutcomes ELSE {"none"})
    /\ compensation \in (IF payment = "request_error" THEN CallOutcomes ELSE {"none"})
    /\ LET new_id == Len(orders) + 1
           after_reserve == IF reserve = "ok"
                            THEN reserve_stock(reserved, product_id, quantity)
                            ELSE reserved
           after == IF compensation = "ok"
                    THEN compensate_stock(after_reserve, product_id, quantity)
                    ELSE after_reserve
           status == FinalStatus(reserve, payment, compensation)
       IN /\ orders' = Append(orders, [Order(product_id, quantity) EXCEPT !.status = status])
          /\ reserved' = after
          /\ sync' = Append(sync,
                [order_id |-> new_id, product_id |-> product_id, quantity |-> quantity,
                 reserve |-> reserve, payment |-> payment, compensation |-> compensation,
                 calls |-> Calls(product_id, quantity, reserve, payment, compensation),
                 before |-> ReservedOf(product_id),
                 after |-> IF product_id \in DOMAIN after THEN after[product_id] ELSE 0,
                 status |-> status])
    /\ UNCHANGED <<svc, running, declared, bindings, queues, inflight, log, published,
                   faults, externals>>
    /\ UNCHANGED <<conn, iterations, http>>
    /\ UNCHANGED <<client, codec, fanout>>

(* --------------------------- specifications --------------------------- *)
\* one step of a saga handler in flight; faulty: a database or broker fault may
\* be injected into the step
Outcomes(faulty, kinds) == IF faulty THEN {"ok"} \cup kinds ELSE {"ok"}

Handle(faulty) ==
    \/ \E d \in inflight : process_order_created_select(d)
    \/ \E d \in inflight, outcome \in Outcomes(faulty, {"db_error", "publish_error"}) :
           process_order_created_commit(d, outcome)
    \/ \E d \in inflight, outcome \in Outcomes(faulty, {"publish_error"}) :
           process_stock_reserved(d, outcome)
    \/ \E d \in inflight, outcome \in Outcomes(faulty, {"db_error"}) :
           order_process_payment_failed(d, outcome)
    \/ \E d \in inflight, outcome \in Outcomes(faulty, {"publish_error"}) :
           inventory_process_payment_failed(d, outcome)

\* the step of the analytics click handler
HandleClick == \E d \in inflight : process_click_tracked(d)

Start == \E s \in Services : StartService(s)

Stop ==
    \/ \E s \in Services : CancelTasks(s)
    \/ \E d \in inflight : HandlerCancelled(d)
    \/ \E s \in Services : Disconnect(s)

Orders(faulty) ==
    \E p \in Products, q \in Quantities,
       outcome \in Outcomes(faulty, {"db_error", "publish_error"}) :
        create_order(p, q, outcome)

Foreign ==
    \E q \in ConsumerQueues, b \in ExternalBodies, h \in ExternalHeaders :
        ExternalPublish(q, b, h)

Delivery_ == \E q \in ConsumerQueues : Deliver(q)

\* every service has completed its lifespan start-up, the broker is empty
InitUp ==
    /\ svc = [s \in AllServices |-> IF s \in Services THEN "up" ELSE "init"]
    /\ running = [q \in ConsumerQueues |-> TRUE]
    /\ declared = UNION {DeclaredBy(s) : s \in Services}
    /\ bindings = UNION {BoundBy(s) : s \in Services}
    /\ queues = [q \in AllQueues |-> <<>>]
    /\ inflight = {}
    /\ log = {}
    /\ published = {}
    /\ orders = <<>>
    /\ reserved = <<>>
    /\ faults = 0
    /\ externals = 0
    /\ conn = [s \in AllServices |-> IF s \in Services THEN "open" ELSE "none"]
    /\ iterations = [q \in ConsumerQueues |-> 0]
    /\ http = {}
    /\ AuxInit

\* as InitUp, after a foreign producer has published one message
InitForeign ==
    \E q0 \in ConsumerQueues, b \in ExternalBodies, h \in ExternalHeaders :
        /\ svc = [s \in AllServices |-> IF s \in Services THEN "up" ELSE "init"]
        /\ running = [q \in ConsumerQueues |-> TRUE]
        /\ declared = UNION {DeclaredBy(s) : s \in Services}
        /\ bindings = UNION {BoundBy(s) : s \in Services}
        /\ queues = [q \in AllQueues |->
                        IF q = q0 THEN <<Message(<<0, 1>>, b, h)>> ELSE <<>>]
        /\ inflight = {}
        /\ log = {}
        /\ published = {}
        /\ orders = <<>>
        /\ reserved = <<>>
        /\ faults = 0
        /\ externals = 1
        /\ conn = [s \in AllServices |-> IF s \in Services THEN "open" ELSE "none"]
        /\ iterations = [q \in ConsumerQueues |-> 0]
        /\ http = {}
        /\ AuxInit
    /\ AuxInit

\* services starting on an empty broker, messages from foreign producers
Next == Start \/ Foreign \/ Delivery_ \/ Handle(FALSE) \/ HandleClick
Spec == Init /\ [][Next]_vars

\* the saga driven by order requests, with database and broker faults
SagaNext == Orders(TRUE) \/ Delivery_ \/ Handle(TRUE)
SagaSpec == InitUp /\ [][SagaNext]_vars

\* service shutdown while a message is in the system
ShutdownNext == Delivery_ \/ Handle(FALSE) \/ HandleClick \/ Stop
ShutdownSpec == InitForeign /\ [][ShutdownNext]_vars

\* a consumer is stopped, by stop() or by cancelling its task, while a
\* message is in the system and the connection is still open
StopConsumer ==
    \/ \E q \in ConsumerQueues : stop(q)
    \/ \E s \in Services : CancelTasks(s)
StopNext == Delivery_ \/ Handle(FALSE) \/ HandleClick \/ StopConsumer
StopSpec == InitForeign /\ [][StopNext]_vars

\* requests to the producer endpoints, with broker faults
Requests ==
    \E outcome \in Outcomes(TRUE, {"publish_error"}) :
        \/ register_user(outcome)
        \/ process_payment(outcome)
        \/ update_product(outcome)
        \/ generate_report(outcome)
        \/ track_click(outcome)
ProducerNext == Orders(TRUE) \/ Requests
ProducerSpec == InitUp /\ [][ProducerNext]_vars

\* as InitUp, with a burst of click events waiting in click_tracked_queue
InitBurst ==
    /\ svc = [s \in AllServices |-> IF s \in Services THEN "up" ELSE "init"]
    /\ running = [q \in ConsumerQueues |-> TRUE]
    /\ declared = UNION {DeclaredBy(s) : s \in Services}
    /\ bindings = UNION {BoundBy(s) : s \in Services}
    /\ queues = [q \in AllQueues |->
                    IF q = CLICK_QUEUE
                    THEN [k \in 1..MaxBurst |->
                            Message(<<0, k>>, event_to_json(ClickTrackedEvent(k, "home")),
                                    NoHeaders)]
                    ELSE <<>>]
    /\ inflight = {}
    /\ log = {}
    /\ published = {}
    /\ orders = <<>>
    /\ reserved = <<>>
    /\ faults = 0
    /\ externals = MaxBurst
    /\ conn = [s \in AllServices |-> IF s \in Services THEN "open" ELSE "none"]
    /\ iterations = [q \in ConsumerQueues |-> 0]
    /\ http = {}
    /\ AuxInit

\* the analytics consumer under a burst
PrefetchNext == Delivery_ \/ HandleClick
PrefetchSpec == InitBurst /\ [][PrefetchNext]_vars

\* the services whose start-up and connection the connection specification
\* follows: two that await connect() in their lifespan, two that connect in
\* a background task
Followed == {"orderservice", "inventoryservice", "emailservice", "cacheservice"}

\* start-up with a broker that may be unreachable, then connection loss and
\* reconnection while the consumers run
ConnNext ==
    \/ \E s \in Followed \cap Services : StartService(s)
    \/ \E s \in Followed \cap Services : StartFails(s)
    \/ \E s \in Followed \cap WorkerServices : StartWorker(s)
    \/ \E s \in Followed \cap WorkerServices, reachable \in BOOLEAN :
           start_consumer(s, reachable)
    \/ \E s \in Followed : ConnectionLost(s)
    \/ \E s \in Followed : Reconnected(s)
    \/ \E q \in ConsumerQueues : RunLoopIteration(q)
    \/ \E q \in ConsumerQueues : stop(q)
    \/ \E s \in Followed \cap Services : CancelTasks(s)
ConnSpec == Init /\ [][ConnNext]_vars

\* one client: connect(), then calls of disconnect() whose closes may raise
ClientNext ==
    \/ \E outcome \in {"ok", "unreachable", "channel_error"} : connect(outcome)
    \/ \E channel_close \in {"ok", "raises"}, connection_close \in {"ok", "raises"} :
           disconnect(channel_close, connection_close)
ClientSpec == Init /\ [][ClientNext]_vars

\* a PaymentFailed for order 1 that reaches the order service again (a
\* duplicate of the broadcast, from any producer)
DuplicatePaymentFailed ==
    \E h \in ExternalHeaders :
        ExternalPublish(ORDER_PAYMENT_FAILED_QUEUE,
                        event_to_json(PaymentFailedEvent(1, "external")), h)

\* the saga without faults, with a duplicate PaymentFailed
LifecycleNext == Orders(FALSE) \/ DuplicatePaymentFailed \/ Delivery_ \/ Handle(FALSE)
LifecycleSpec == InitUp /\ [][LifecycleNext]_vars

\* the subscribers of the fanout exchanges start in any order while
\* product updates are published
FanoutNext ==
    \/ Start
    \/ \E s \in {"cacheservice", "searchservice"} : StartWorker(s)
    \/ \E s \in {"cacheservice", "searchservice"}, reachable \in BOOLEAN :
           start_consumer(s, reachable)
    \/ \E outcome \in Outcomes(TRUE, {"publish_error"}) : update_product(outcome)
FanoutSpec == Init /\ [][FanoutNext]_vars

\* one event through the codec: encoded and decoded, or a defective body
\* decoded
CodecNext ==
    \/ \E cls \in EventClasses : \E event \in Instances(cls) : encode(cls, event)
    \/ \E cls \in EventClasses : \E event \in Instances(cls) :
          \E f \in RequiredFields(cls), defect \in {"missing", "wrong_type"} :
             receive(cls, event, f, defect)
    \/ decode
CodecSpec == Init /\ [][CodecNext]_vars

\* as InitUp, after an earlier order of product p has been through its saga
\* (its reservation of one unit is in the inventory table) and two more orders
\* of the product have just been accepted: their OrderCreated events wait in
\* order_created_queue
InitRace ==
    \E p \in Products, q1, q2 \in {q \in Quantities : q > 0} :
        LET body(o, q) == event_to_json(OrderCreatedEvent(o, p, q))
        IN /\ svc = [s \in AllServices |-> IF s \in Services THEN "up" ELSE "init"]
           /\ running = [q \in ConsumerQueues |-> TRUE]
           /\ declared = UNION {DeclaredBy(s) : s \in Services}
           /\ bindings = UNION {BoundBy(s) : s \in Services}
           /\ queues = [q \in AllQueues |->
                           IF q = "order_created_queue"
                           THEN <<Message(<<2>>, body(2, q1), NoHeaders),
                                  Message(<<3>>, body(3, q2), NoHeaders)>>
                           ELSE <<>>]
           /\ inflight = {}
           /\ log = {}
           /\ published = {Published(<<2>>, "", "order_created_queue", body(2, q1)),
                           Published(<<3>>, "", "order_created_queue", body(3, q2))}
           /\ orders = <<[Order(p, 1) EXCEPT !.status = "failed"],
                         Order(p, q1), Order(p, q2)>>
           /\ reserved = (p :> Reserve(0, 1))
           /\ faults = 0
           /\ externals = 0
           /\ conn = [s \in AllServices |-> IF s \in Services THEN "open" ELSE "none"]
           /\ iterations = [q \in ConsumerQueues |-> 0]
           /\ http = {[req |-> o - 1, endpoint |-> "create_order", status |-> 202,
                       publish_failed |-> FALSE, event |-> <<o>>] : o \in {2, 3}}
           /\ AuxInit

\* two sagas running at once, without faults
RaceNext == Delivery_ \/ Handle(FALSE)
RaceSpec == InitRace /\ [][RaceNext]_vars

\* as Init, after the lifespan of the cache and search services has created
\* the start_consumer() task and connect() has returned in it
InitWorkers ==
    /\ svc = [s \in AllServices |-> IF s \in FanoutWorkers THEN "up" ELSE "init"]
    /\ running = [q \in ConsumerQueues |-> FALSE]
    /\ declared = {}
    /\ bindings = {}
    /\ queues = [q \in AllQueues |-> <<>>]
    /\ inflight = {}
    /\ log = {}
    /\ published = {}
    /\ orders = <<>>
    /\ reserved = <<>>
    /\ faults = 0
    /\ externals = 0
    /\ conn = [s \in AllServices |-> IF s \in FanoutWorkers THEN "open" ELSE "none"]
    /\ iterations = [q \in ConsumerQueues |-> 0]
    /\ http = {}
    /\ AuxInit

\* FanoutConsumer.start step by step, while product updates are published
\* to the exchange and a foreign producer writes to a declared queue
SubscribeNext ==
    \/ \E s \in FanoutWorkers, ok \in BOOLEAN : fanout_declare_exchange(s, ok)
    \/ \E s \in FanoutWorkers, outcome \in {"ok", "declare_error", "bind_error"} :
           fanout_bind_queue(s, outcome)
    \/ \E s \in FanoutWorkers, ok \in BOOLEAN : fanout_consume(s, ok)
    \/ \E s \in FanoutWorkers : process_product_updated(s)
    \/ update_product("ok")
    \/ \E s \in FanoutWorkers :
           ExternalPublish(QUEUE_NAME(s), event_to_json(ProductUpdatedEvent(1)), NoHeaders)
SubscribeSpec == InitWorkers /\ [][SubscribeNext]_vars

\* the synchronous saga: requests served one after the other
SyncNext ==
    \E p \in Products, q \in Quantities :
        \E reserve, payment, compensation \in CallOutcomes \cup {"none"} :
            sync_create_order(p, q, reserve, payment, compensation)
SyncSpec == Init /\ [][SyncNext]_vars

\* the saga without faults, under fair start-up, delivery and handling
FairNext == Start \/ Orders(FALSE) \/ Delivery_ \/ Handle(FALSE)
SagaFair ==
    /\ Init
    /\ [][FairNext]_vars
    /\ \A s \in Services : WF_vars(StartService(s))
    /\ \A q \in ConsumerQueues : WF_vars(Deliver(q))
    /\ WF_vars(Handle(FALSE))


(* ------------------------------- claims ------------------------------- *)
\* the copies of messages a queue holds, ready or in flight
Live(q) ==
    {queues[q][i] : i \in DOMAIN queues[q]} \cup
    {d.msg : d \in {x \in inflight : x.queue = q}}

HasRetryHeader(headers) == "x-retry-count" \in DOMAIN headers

HeaderCount(headers) ==
    IF HasRetryHeader(headers) THEN headers["x-retry-count"] ELSE 0

\* the settlements recorded for the copy id of queue q
Entries(id, q) == {e \in log : e.id = id /\ e.queue = q}

\* a settlement after which the broker no longer holds the copy
Terminal(e) == e.disp \in {"ack", "discard"}

Ready(id, q) == {i \in DOMAIN queues[q] : queues[q][i].id = id}

Flying(id, q) == {d \in inflight : d.queue = q /\ d.msg.id = id}

\* a body the handler of queue q cannot turn into its event
Malformed(q, body) ==
    CASE q = "order_created_queue" -> ~json_to_event_ok(body, "OrderCreatedEvent")
      [] q = "stock_reserved_queue" -> ~json_to_event_ok(body, "StockReservedEvent")
      [] q = ORDER_PAYMENT_FAILED_QUEUE -> ~json_to_event_ok(body, "PaymentFailedEvent")
      [] q = INVENTORY_PAYMENT_FAILED_QUEUE -> ~json_to_event_ok(body, "PaymentFailedEvent")
      [] q = CLICK_QUEUE -> ~json_to_event_ok(body, "ClickTrackedEvent")

\* the inventory service has handled the PaymentFailed of order o
Compensated(o) ==
    \E e \in log :
        /\ e.queue = INVENTORY_PAYMENT_FAILED_QUEUE
        /\ e.disp = "ack"
        /\ Payload(e.body).order_id = o

\* C1: a message published without a retry header is delivered at most
\* max_retries + 1 times (the first delivery and max_retries redeliveries):
\* after that many failures it has been rejected without requeue.
C1_RetryBound ==
    \A q \in ConsumerQueues : \A m \in Live(q) :
        ~HasRetryHeader(m.headers) => m.n <= max_retries + 1

\* C2: every ack sent to the broker ends a delivery whose handler returned
\* without error; a delivery that raised or was cancelled is never acked.
C2_AckAfterSuccess ==
    \A e \in log : e.disp = "ack" => e.cause = "success"

C2_Witness ==
    /\ \E e \in log : e.disp = "ack"
    /\ \E e \in log : e.cause = "shutdown"

\* C3: once the inventory service has handled the PaymentFailed of every
\* order, each order having reserved a positive quantity and no step having
\* failed, the reserved count of every product is back to 0; and while all
\* quantities are positive no reserved count is negative.
C3_Compensation ==
    /\ (faults = 0 /\ \A o \in DOMAIN orders : orders[o].quantity > 0 /\ Compensated(o))
          => \A p \in Products : ReservedOf(p) = 0
    /\ (\A o \in DOMAIN orders : orders[o].quantity > 0)
          => \A p \in Products : ReservedOf(p) >= 0

C6_RetryCounter ==
    \A q \in ConsumerQueues : \A m \in Live(q) :
        HeaderCount(m.headers) =
            Cardinality({e \in Entries(m.id, q) :
                            e.cause = "failure" /\ e.disp = "requeue"})

\* C7: a message without retry header whose body cannot be decoded into the
\* event of its queue is never acked, is delivered at most max_retries + 1
\* times, and its delivery number max_retries + 1 is rejected without requeue.
C7_Malformed ==
    \A e \in log : (Malformed(e.queue, e.body) /\ ~HasRetryHeader(e.headers)) =>
        /\ e.disp # "ack"
        /\ e.n <= max_retries + 1
        /\ e.n = max_retries + 1 => e.disp = "discard"

C9_RetryDecision ==
    \A e \in log : e.cause = "failure" =>
        /\ HeaderCount(e.headers) < max_retries => e.disp = "requeue"
        /\ HeaderCount(e.headers) >= max_retries => e.disp = "discard"

C9_Witness ==
    \E e \in log :
        /\ e.cause = "failure"
        /\ HasRetryHeader(e.headers)
        /\ e.headers["x-retry-count"] = max_retries
        /\ e.disp = "discard"

\* C11: when the inventory handler of OrderCreated(o, p, q) reads the row it
\* reads the reserved count of p (0 if absent), and when it completes (its
\* delivery is acked) the reserved count of p is that count plus q and the
\* step publishes exactly one event, StockReserved(o, p, q), appended to
\* stock_reserved_queue.
C11_StockReservation ==
    [][/\ \A d \in inflight' \ inflight :
              d.pc = "Selected" => d.snap = ReservedOf(Payload(d.msg.body).product_id)
       /\ \A d \in inflight :
              (/\ d.queue = "order_created_queue"
               /\ d \notin inflight'
               /\ \E e \in log' \ log : e.id = d.msg.id /\ e.disp = "ack")
              => LET ev == Payload(d.msg.body)
                     new == published' \ published
                     before == queues["stock_reserved_queue"]
                     after == queues'["stock_reserved_queue"]
                 IN /\ ev.product_id \in DOMAIN reserved'
                    /\ reserved'[ev.product_id] = d.snap + ev.quantity
                    /\ \E x \in new :
                          /\ new = {x}
                          /\ x.exchange = ""
                          /\ x.routing_key = "stock_reserved_queue"
                          /\ Payload(x.body) = [order_id |-> ev.order_id,
                                           product_id |-> ev.product_id,
                                           quantity |-> ev.quantity]
                          /\ Len(after) = Len(before) + 1
                          /\ after[Len(after)].body = x.body
                          /\ after[Len(after)].id = x.id]_vars

C11_Witness ==
    \E e \in log :
        /\ e.queue = "order_created_queue"
        /\ e.disp = "ack"
        /\ e.n = 2
        /\ Payload(e.body).quantity > 0
        /\ ReservedOf(Payload(e.body).product_id) = 2 * Payload(e.body).quantity
        /\ \E x \in published :
              x.routing_key = "stock_reserved_queue" /\ Payload(x.body).order_id = Payload(e.body).order_id

\* C12: no order ever has status completed: every order row has status
\* pending or failed.
C12_NoCompleted ==
    \A o \in DOMAIN orders : orders[o].status \in {"pending", "failed"}

C12_Witness == \E o \in DOMAIN orders : orders[o].status = "failed"

\* C13: the reserved count of every product is at least 0 in every state,
\* whatever quantities the order requests carried.
C13_NonNegative == \A p \in Products : ReservedOf(p) >= 0

\* C14: a delivery is handed to a consumer's callback only while that
\* consumer's run loop is running: none after stop() or after the
\* cancellation of its task.
C14_StopsAccepting ==
    [][\A d \in inflight' \ inflight : running[d.queue]]_vars

\* C15: every settled delivery of a valid StockReserved event was acked and
\* published exactly one PaymentFailed, to the payment_failed exchange and
\* with the event's order_id, unless the publish itself raised, in which
\* case nothing was published; and every PaymentFailed published comes from
\* such a delivery.
C15_BusinessFailure ==
    /\ \A e \in log :
          (e.queue = "stock_reserved_queue"
             /\ json_to_event_ok(e.body, "StockReservedEvent")) =>
            LET out == {x \in published : x.id = e.id \o <<e.n>>}
            IN IF e.disp = "ack"
               THEN \E x \in out :
                       /\ out = {x}
                       /\ x.exchange = PAYMENT_FAILED_EXCHANGE
                       /\ Payload(x.body).order_id = Payload(e.body).order_id
               ELSE faults > 0 /\ out = {}
    /\ \A x \in published : x.exchange = PAYMENT_FAILED_EXCHANGE =>
          \E e \in log :
              /\ e.queue = "stock_reserved_queue"
              /\ e.disp = "ack"
              /\ x.id = e.id \o <<e.n>>

C15_Witness ==
    \E e \in log :
        /\ e.queue = "stock_reserved_queue"
        /\ e.disp = "ack"
        /\ e.n = 1
        /\ faults = 0
        /\ \E x \in published :
              x.exchange = PAYMENT_FAILED_EXCHANGE
                 /\ Payload(x.body).order_id = Payload(e.body).order_id

\* C16: every order row has exactly one OrderCreated event published to
\* order_created_queue with its id, product_id and quantity, and every such
\* event has its order row.
C16_OneTriggeringEvent ==
    /\ \A o \in DOMAIN orders :
          Cardinality({x \in published :
                          /\ x.routing_key = "order_created_queue"
                          /\ Payload(x.body) = [order_id |-> o,
                                           product_id |-> orders[o].product_id,
                                           quantity |-> orders[o].quantity]}) = 1
    /\ \A x \in published : x.routing_key = "order_created_queue" =>
          Payload(x.body).order_id \in DOMAIN orders

\* C17: every response to a request whose publish failed has an HTTP error
\* status (400 or above), and no event was published for that request.
C17_ProducerFailure ==
    \A r \in http :
        r.publish_failed =>
            /\ r.status >= 400
            /\ r.event = <<>>
            /\ \A x \in published : x.id # <<0, 0, r.req>>

\* C18: in every state each consumer has at most prefetch_count deliveries
\* that are neither acked nor rejected.
C18_Prefetch ==
    \A q \in ConsumerQueues :
        Cardinality({d \in inflight : d.queue = q}) <= prefetch_count

\* the limit is reached while a message is still waiting
C18_Witness ==
    \E q \in ConsumerQueues :
        /\ Cardinality({d \in inflight : d.queue = q}) = prefetch_count
        /\ queues[q] # <<>>

\* C19 (as stated): a run loop that has come round while its connection was
\* lost has terminated, it does not keep running.
C19_LossIsFatal ==
    \A q \in ConsumerQueues : iterations[q] > 0 => ~running[q]

\* C19 (amended): a run loop never ends in a step that loses or restores
\* the connection or in an iteration of the loop itself: it ends only by
\* stop() or by the cancellation of its task.
C19_LoopSurvivesLoss ==
    [][\A q \in ConsumerQueues :
          (running[q] /\ ~running'[q]) =>
              /\ conn' = conn
              /\ iterations' = iterations
              /\ \/ svc'[ConsumerService(q)] = "stopping"
                 \/ svc' = svc]_vars

\* the connection was lost, the loop came round, the connection is back and
\* the loop still runs
C19_Witness ==
    \E q \in ConsumerQueues :
        /\ running[q]
        /\ iterations[q] > 0
        /\ conn[ConsumerService(q)] = "open"

\* C20: a service whose connect() failed has not completed start-up: it is
\* not up.
C20_ConnectFatal ==
    \A s \in AllServices : conn[s] = "failed" => svc[s] # "up"

\* C21: no call of disconnect() raises, and after a call has returned a
\* connection that was made is closed (unless its own close() raised),
\* whatever closing the channel did.
C21_Disconnect ==
    /\ \A i \in 1..Len(client.calls) : ~client.calls[i].raised
    /\ (client.calls # <<>> /\ client.calls[Len(client.calls)].connection_close # "raises")
          => client.connection # "open"

\* C22: in every step no order row disappears, a new row has status
\* pending, product and quantity of a row never change, and a status
\* changes only from pending, to failed or completed.
C22_OrderLifecycle ==
    [][/\ Len(orders') >= Len(orders)
       /\ \A o \in DOMAIN orders' :
             IF o \in DOMAIN orders
             THEN /\ orders'[o].product_id = orders[o].product_id
                  /\ orders'[o].quantity = orders[o].quantity
                  /\ orders'[o].status # orders[o].status =>
                        /\ orders[o].status = "pending"
                        /\ orders'[o].status \in {"failed", "completed"}
             ELSE orders'[o].status = "pending"]_vars

\* an order is failed and PaymentFailed for it has been handled twice
C22_Witness ==
    \E o \in DOMAIN orders :
        /\ orders[o].status = "failed"
        /\ Cardinality({e \in log : /\ e.queue = ORDER_PAYMENT_FAILED_QUEUE
                                    /\ e.disp = "ack"
                                    /\ Payload(e.body).order_id = o}) = 2

\* C23: a step of the Order participant (create_order, or a handler of its
\* queue) leaves every reserved count unchanged, and a step of a handler of
\* the Inventory or Payment participant leaves every order row unchanged.
C23_Ownership ==
    [][/\ http' # http => reserved' = reserved
       /\ \A d \in inflight \ inflight' :
             /\ ConsumerService(d.queue) = "orderservice" => reserved' = reserved
             /\ ConsumerService(d.queue) \in {"inventoryservice", "paymentservice"}
                   => orders' = orders]_vars

\* each of the three participants has completed a handler: the reserved
\* count and the order status have both been written
C23_Witness ==
    /\ \E p \in Products : ReservedOf(p) # 0
    /\ \E o \in DOMAIN orders : orders[o].status = "failed"
    /\ \E e \in log : e.queue = "stock_reserved_queue" /\ e.disp = "ack"
    /\ \E e \in log : e.queue = INVENTORY_PAYMENT_FAILED_QUEUE /\ e.disp = "ack"

\* C24: every binding of a queue to a fanout exchange is the binding of
\* exactly one service, and a product update published to the exchange has
\* put exactly one copy in the queue of every service bound at that time.
C24_UniqueQueues ==
    /\ \A b \in bindings : Cardinality({s \in AllServices : b \in BoundBy(s)}) = 1
    /\ \A x \in published : x.exchange = FANOUT_EXCHANGE =>
          \A s \in AllServices : \A b \in BoundBy(s) :
              (b[1] = x.exchange /\ b[2] \in x.bound) =>
                  Cardinality({i \in DOMAIN queues[b[2]] : queues[b[2]][i].id = x.id}) = 1

\* a product update was broadcast to the three subscribers
C24_Witness ==
    \E x \in published :
        /\ x.exchange = FANOUT_EXCHANGE
        /\ Cardinality(x.bound) = 3
        /\ bindings = UNION {BoundBy(s) : s \in AllServices}

C26_StrictDecoding ==
    (codec.op = "decoded" /\ codec.origin = "receive") => ~codec.ok

\* the published events of one step of the saga
EventsAt(exchange_name, routing_key) ==
    {x \in published : x.exchange = exchange_name /\ x.routing_key = routing_key}

\* x was published by a handler that completed a delivery, from the queue q,
\* of the published event u
HandledFrom(x, u, q) ==
    \E e \in log :
        /\ e.queue = q
        /\ e.disp = "ack"
        /\ e.id = u.id
        /\ x.id = e.id \o <<e.n>>
        /\ Payload(e.body).order_id = Payload(x.body).order_id

\* C27: the events of an order exist only with their upstream events: an
\* OrderCreated only with the order row, a StockReserved only with the
\* OrderCreated of the same order that Inventory handled, a PaymentFailed only
\* with the StockReserved that Payment handled, a StockReleased and the status
\* failed only with the PaymentFailed of the order.
C27_EventOrdering ==
    /\ \A x \in EventsAt("", "order_created_queue") :
           Payload(x.body).order_id \in DOMAIN orders
    /\ \A x \in EventsAt("", "stock_reserved_queue") :
           \E u \in EventsAt("", "order_created_queue") :
               HandledFrom(x, u, "order_created_queue")
    /\ \A x \in EventsAt(PAYMENT_FAILED_EXCHANGE, "") :
           \E u \in EventsAt("", "stock_reserved_queue") :
               HandledFrom(x, u, "stock_reserved_queue")
    /\ \A x \in EventsAt("", "stock_released_queue") :
           \E u \in EventsAt(PAYMENT_FAILED_EXCHANGE, "") :
               HandledFrom(x, u, INVENTORY_PAYMENT_FAILED_QUEUE)
    /\ \A o \in DOMAIN orders :
           orders[o].status = "failed"
               => \E u \in EventsAt(PAYMENT_FAILED_EXCHANGE, "") :
                      Payload(u.body).order_id = o

\* the whole chain of one order has happened
C27_Witness ==
    \E o \in DOMAIN orders :
        /\ orders[o].status = "failed"
        /\ \E x \in EventsAt("", "stock_released_queue") :
               Payload(x.body).order_id = o

\* the participant consuming q has completed its handling of the published
\* event u
HandledBy(q, u) ==
    \E e \in log : e.queue = q /\ e.id = u.id /\ e.disp = "ack"

\* the StockReleased events published for order o
Released(o) ==
    {x \in EventsAt("", "stock_released_queue") : Payload(x.body).order_id = o}

\* C28: for every published PaymentFailed of an order, once the Order
\* participant has handled its copy the order has status failed, and the
\* StockReleased events of the order are exactly one once the Inventory
\* participant has handled its copy and none before, each whatever the
\* progress of the other participant.
C28_RaceIndependence ==
    \A u \in EventsAt(PAYMENT_FAILED_EXCHANGE, "") :
        LET o == Payload(u.body).order_id
        IN /\ HandledBy(ORDER_PAYMENT_FAILED_QUEUE, u)
                 => o \in DOMAIN orders /\ orders[o].status = "failed"
           /\ HandledBy(INVENTORY_PAYMENT_FAILED_QUEUE, u)
                 => Cardinality(Released(o)) = 1
           /\ ~HandledBy(INVENTORY_PAYMENT_FAILED_QUEUE, u) => Released(o) = {}

\* both participants have handled the same PaymentFailed
C28_Witness ==
    \E u \in EventsAt(PAYMENT_FAILED_EXCHANGE, "") :
        /\ HandledBy(ORDER_PAYMENT_FAILED_QUEUE, u)
        /\ HandledBy(INVENTORY_PAYMENT_FAILED_QUEUE, u)
        /\ Cardinality(Released(Payload(u.body).order_id)) = 1

\* the sum of the quantities of the orders in S
RECURSIVE Total(_)
Total(S) ==
    IF S = {} THEN 0
    ELSE LET o == CHOOSE x \in S : TRUE
         IN orders[o].quantity + Total(S \ {o})

\* C29: the reserved count of every product is the sum of the quantities of
\* some of the orders of that product, each counted once, and at most one
\* StockReserved is published for every order, however often its
\* OrderCreated is delivered.
C29_ReservedOnce ==
    /\ \A p \in Products :
           \E S \in SUBSET {o \in DOMAIN orders : orders[o].product_id = p} :
               ReservedOf(p) = Total(S)
    /\ \A o \in DOMAIN orders :
           Cardinality({x \in EventsAt("", "stock_reserved_queue") :
                            Payload(x.body).order_id = o}) <= 1

\* C30: once every published OrderCreated has been handled successfully by
\* Inventory, the reserved count of every product is the sum of the
\* quantities of all its orders: each handler's increase is in the count.
C30_NoLostUpdate ==
    (\A u \in EventsAt("", "order_created_queue") :
         HandledBy("order_created_queue", u))
        => \A p \in Products :
               ReservedOf(p) = Total({o \in DOMAIN orders : orders[o].product_id = p})

\* C31: starting from an empty broker with no service started, every
\* PaymentFailed is published while both order_payment_failed_queue and
\* inventory_payment_failed_queue are bound to the payment_failed exchange,
\* and each of the two queues has received its copy.
C31_BindingsFirst ==
    \A x \in EventsAt(PAYMENT_FAILED_EXCHANGE, "") :
        /\ x.bound = {ORDER_PAYMENT_FAILED_QUEUE, INVENTORY_PAYMENT_FAILED_QUEUE}
        /\ \A q \in x.bound :
               Ready(x.id, q) # {} \/ Flying(x.id, q) # {} \/ Entries(x.id, q) # {}

\* a PaymentFailed has been published after the three services started
C31_Witness ==
    /\ \A s \in {"orderservice", "inventoryservice", "paymentservice"} : svc[s] = "up"
    /\ \E x \in EventsAt(PAYMENT_FAILED_EXCHANGE, "") :
           /\ ORDER_PAYMENT_FAILED_QUEUE \in x.bound
           /\ INVENTORY_PAYMENT_FAILED_QUEUE \in x.bound

\* C32: every ProductUpdated published by update_product is routed to the
\* queue of each of the three subscribers (search, cache, analytics), whatever
\* the order of the services' start-up and the publish.
C32_Broadcast ==
    \A x \in EventsAt(FANOUT_EXCHANGE, "") :
        /\ x.bound = FanoutQueues
        /\ \A q \in FanoutQueues : \E i \in DOMAIN queues[q] : queues[q][i].id = x.id

\* C33: FanoutConsumer.start moves from the exchange declaration to the
\* binding and from the binding to consuming, in that order; its queue is
\* bound when consumption starts and when any message of the queue is
\* handled, and after a failed declaration or binding it never consumes.
C33_StartOrder ==
    [][\A s \in FanoutWorkers :
          /\ fanout'[s] # fanout[s] =>
                <<fanout[s], fanout'[s]>> \in
                    {<<"idle", "declared">>, <<"idle", "failed">>,
                     <<"declared", "bound">>, <<"declared", "failed">>,
                     <<"bound", "consuming">>, <<"bound", "failed">>}
          /\ fanout'[s] \in {"bound", "consuming"} => BoundBy(s) \subseteq bindings'
          /\ (\E e \in log' \ log : e.queue = QUEUE_NAME(s))
                => fanout[s] = "consuming" /\ BoundBy(s) \subseteq bindings]_vars

\* one subscriber has handled a product update from its bound queue, while
\* the other, whose binding failed, leaves a message waiting in its queue
C33_Witness ==
    \E s, t \in FanoutWorkers :
        /\ fanout[s] = "consuming"
        /\ \E e \in log : e.queue = QUEUE_NAME(s) /\ e.disp = "ack" /\ Len(e.id) = 3
        /\ fanout[t] = "failed"
        /\ queues[QUEUE_NAME(t)] # <<>>

\* C34: every queue that holds a published message is a queue some service
\* consumes from, so that no message stays in its queue for ever.
C34_EveryQueueConsumed ==
    \A q \in AllQueues :
        queues[q] # <<>> => q \in ConsumerQueues \cup FanoutQueues

\* C35: every delivery that was not cancelled has been settled by a call of
\* _handle_message that returned normally.
C35_CallbackReturns ==
    \A e \in log : e.cause # "shutdown" => e.returns = "normal"

\* C36: a delivery to the Order participant of a valid PaymentFailed whose
\* order_id matches no order row ends with the order rows unchanged and the
\* message acknowledged, by a handler call that returned normally, and it
\* is the first delivery of the message.
C36_UnknownOrder ==
    [][\A d \in inflight \ inflight' :
          (/\ d.queue = ORDER_PAYMENT_FAILED_QUEUE
           /\ json_to_event_ok(d.msg.body, "PaymentFailedEvent")
           /\ json_to_event(d.msg.body, "PaymentFailedEvent").order_id \notin DOMAIN orders)
          => /\ orders' = orders
             /\ d.msg.n = 1
             /\ \E e \in log' \ log :
                   /\ log' \ log = {e}
                   /\ e.id = d.msg.id
                   /\ e.disp = "ack"
                   /\ e.returns = "normal"
             /\ Ready(d.msg.id, d.queue) = {}]_vars

\* a PaymentFailed for an order that did not exist was acknowledged, and the
\* order created afterwards is untouched by it
C36_Witness ==
    \E e \in log :
        /\ e.queue = ORDER_PAYMENT_FAILED_QUEUE
        /\ e.disp = "ack"
        /\ Len(e.id) = 2
        /\ Payload(e.body).order_id \in DOMAIN orders
        /\ orders[Payload(e.body).order_id].status = "pending"

Compensations(r) == {k \in DOMAIN r.calls : r.calls[k].endpoint = "compensate_stock"}

\* C38: a request calls compensate_stock once if its reservation succeeded
\* and its payment call failed and never otherwise, with the product_id and
\* quantity of the reservation; after a compensation that succeeded the
\* reserved count of the product is what it was before the request.
C38_Compensation ==
    \A i \in DOMAIN sync :
        LET r == sync[i]
        IN /\ Cardinality(Compensations(r)) =
                 IF r.reserve = "ok" /\ r.payment = "request_error" THEN 1 ELSE 0
           /\ \A k \in Compensations(r) :
                 /\ r.calls[k].product_id = r.calls[1].product_id
                 /\ r.calls[k].quantity = r.calls[1].quantity
           /\ r.compensation = "ok" => r.after = r.before

\* C39: a service that is serving requests reports rabbitmq_connected true
\* exactly when its broker connection is open.
C39_Health ==
    \A s \in AllServices :
        svc[s] = "up" => (rabbitmq_connected(s) <=> conn[s] = "open")

\* an order whose saga is resolved: status failed, StockReleased published
Resolved(o) ==
    /\ o \in DOMAIN orders
    /\ orders[o].status = "failed"
    /\ \E p \in published :
          p.routing_key = "stock_released_queue" /\ Payload(p.body).order_id = o

\* C10: under fair start-up, delivery and handling and without handler
\* failures, every order created eventually has status failed and a
\* StockReleased event published for it.
C10_SagaResolution ==
    \A o \in 1..MaxOrders : (o \in DOMAIN orders) ~> Resolved(o)

C10_Witness == \E o \in DOMAIN orders : Resolved(o)

====
